---- MODULE Spec2Model ----
(***************************************************************************)
(* Model of lantz/visa.py: the VisaDriver dispatcher, the                  *)
(* MessageVisaDriver lifecycle (initialize / finalize / is_open), its raw  *)
(* I/O (raw_send / raw_recv), the IEEE488.2 block reader (read_block) and  *)
(* the Serial / USB variants.                                              *)
(*                                                                         *)
(* The pyvisa Resource ("Session") is the environment.  It is modelled by  *)
(* what the driver code relies on: open_resource gives a Resource whose    *)
(* `session` is not None, close() makes it None (visa.py line 141), a read *)
(* returns at most the requested number of bytes and fewer on a timeout,   *)
(* and any call on a closed Resource fails with InvalidSession.            *)
(***************************************************************************)
EXTENDS Integers, Sequences, FiniteSets, TLC

VARIABLES
    variant,          \* class of the driver object
    init_attributes,  \* self._init_attributes, as an ordered list of <<key, value>>
    resource,         \* self.resource: "None" or "Resource"
    session,          \* self.resource.session: 0 is None, 1 a live handle
    attrs,            \* attributes set so far on the current Resource, in order
    nopen,            \* open_resource calls that succeeded since the last finalize
    finalized,        \* a finalize() has closed a session of this driver
    stream,           \* bytes the instrument has still to deliver
    lastOp,           \* the driver method that ran last
    result,           \* what it returned (bytes), <<>> when it returned nothing
    error,            \* the exception it raised, "" when it returned normally
    log,              \* the calls it issued on the Resource, in order
    declared,         \* `length` as parsed by the last read_block, else -1
    recv_size,        \* the size argument of the last raw_recv, else None
    pc,               \* position inside the drain loop of raw_recv
    buffers,          \* local `buffers` of raw_recv
    data,             \* local `data` of raw_recv
    endless,          \* the instrument fills every buffer, for ever
    resource_name,    \* canonical resource name seen by VisaDriver.__new__
    kwargs            \* keyword arguments of the constructor

vars == <<variant, init_attributes, resource, session, attrs, nopen,
          finalized, stream,
          lastOp, result, error, log, declared, recv_size, pc, buffers,
          data, endless, resource_name, kwargs>>

driverVars == <<variant, init_attributes>>
callVars == <<lastOp, result, error, log, declared, recv_size>>
loopVars == <<pc, buffers, data, endless>>
ctorVars == <<resource_name, kwargs>>

----------------------------------------------------------------------------
(* Bounds of the model *)

MaxStreamLen == 4     \* longest pending instrument output in SpecIO
MaxLifeLen == 1       \* longest pending instrument output in Spec
MaxHeld == 1          \* most bytes a timeout withholds from one read
MaxSize == 2          \* largest positive size passed to raw_recv

----------------------------------------------------------------------------
(* Bytes and byte strings: a byte string is a sequence of one-character    *)
(* strings.                                                                *)

Byte == {"#", "0", "1", "2"}

Digits == <<"0", "1", "2", "3", "4", "5", "6", "7", "8", "9">>

Min(a, b) == IF a < b THEN a ELSE b

Max(a, b) == IF a > b THEN a ELSE b

Take(s, n) == SubSeq(s, 1, Min(n, Len(s)))

Drop(s, n) == SubSeq(s, Min(n, Len(s)) + 1, Len(s))

\* the buffers joined last first
RECURSIVE join_reversed(_)
join_reversed(bufs) ==
    IF bufs = <<>> THEN <<>> ELSE join_reversed(Tail(bufs)) \o Head(bufs)

\* b''.join(buffers)
RECURSIVE join(_)
join(bufs) == IF bufs = <<>> THEN <<>> ELSE Head(bufs) \o join(Tail(bufs))

IsDigit(c) == \E d \in 1..10 : Digits[d] = c

DigitVal(c) == (CHOOSE d \in 1..10 : Digits[d] = c) - 1

\* int(bytes) succeeds on a non-empty string of decimal digits (the only
\* other bytes of the model's alphabet is '#', on which it raises ValueError)
IntOk(bs) == bs # <<>> /\ \A i \in 1..Len(bs) : IsDigit(bs[i])

RECURSIVE int(_)
int(bs) == IF bs = <<>> THEN 0
           ELSE 10 * int(SubSeq(bs, 1, Len(bs) - 1)) + DigitVal(bs[Len(bs)])

----------------------------------------------------------------------------
(* Class attributes of MessageVisaDriver *)

RECV_BUFFER_SIZE == 256

\* The optional `size` argument: <<>> is None, <<n>> the integer n.
None == <<>>

Falsy(size) == size = None \/ size[1] = 0

----------------------------------------------------------------------------
(* The Resource (Session) *)

\* held-back bytes of the i-th read of a call; no timeout beyond the plan
Held(plan, i) == IF i <= Len(plan) THEN plan[i] ELSE 0

\* resource.read_raw(n) on pending bytes st: at most n bytes, `held` fewer
\* when the read times out first (timed: it returned less than was pending)
read_raw(st, n, held) ==
    LET k == Max(0, Min(n, Len(st)) - held)
    IN  [data |-> Take(st, k), rest |-> Drop(st, k),
         timed |-> k < Min(n, Len(st))]

\* one read_raw call as raw_recv sees it
Read(n, r) == [n |-> n, data |-> r.data, timed |-> r.timed]

\* one entry of the call log: the Resource method, its size argument, the
\* bytes it returned, whether the session was live when it was called,
\* whether ignore_warning(VI_SUCCESS_MAX_CNT) was in force, and whether the
\* call timed out
Call(op, n, bytes, live, ign, timed) ==
    [op |-> op, n |-> n, data |-> bytes, live |-> live, ign |-> ign,
     timed |-> timed]

\* a call that transfers no data
Ctl(op, live) == Call(op, 0, <<>>, live, FALSE, FALSE)

\* the read_raw calls of a raw_recv, as log entries
ReadCalls(reads, ign) ==
    [i \in 1..Len(reads) |->
        Call("read_raw", reads[i].n, reads[i].data, TRUE, ign, reads[i].timed)]

----------------------------------------------------------------------------
(* raw_recv *)

\* the loop test with <= for <
short_read_or_full(d) == Len(d) <= RECV_BUFFER_SIZE

\* line 112: the test that ends the drain loop
short_read(d) == Len(d) < RECV_BUFFER_SIZE

\* lines 108-114: the drain loop.  reads is the list of read_raw calls made
\* so far, i the index of the next read in the timeout plan.
RECURSIVE drain(_, _, _, _, _)
drain(st, bufs, reads, plan, i) ==
    LET r == read_raw(st, RECV_BUFFER_SIZE, Held(plan, i))
        bufs2 == Append(bufs, r.data)
        reads2 == Append(reads, Read(RECV_BUFFER_SIZE, r))
    IN  IF short_read(r.data)
        THEN [data |-> join(bufs2), rest |-> r.rest, reads |-> reads2]
        ELSE drain(r.rest, bufs2, reads2, plan, i + 1)

\* line 107: the sizes that select the drain loop
drain_mode(size) == Falsy(size) \/ size[1] = -1

\* raw_recv that asks again for the missing bytes after a short read
MessageVisaDriver_raw_recv_retry(st, size, plan, i) ==
    IF drain_mode(size)
    THEN drain(st, <<>>, <<>>, plan, i)
    ELSE LET r == read_raw(st, size[1], Held(plan, i))
             missing == size[1] - Len(r.data)
             r2 == read_raw(r.rest, missing, Held(plan, i + 1))
         IN  IF missing = 0
             THEN [data |-> r.data, rest |-> r.rest,
                   reads |-> <<Read(size[1], r)>>]
             ELSE [data |-> r.data \o r2.data, rest |-> r2.rest,
                   reads |-> <<Read(size[1], r), Read(missing, r2)>>]

\* MessageVisaDriver.raw_recv
MessageVisaDriver_raw_recv(st, size, plan, i) ==
    IF drain_mode(size)
    THEN drain(st, <<>>, <<>>, plan, i)
    ELSE LET r == read_raw(st, size[1], Held(plan, i))
         IN  [data |-> r.data, rest |-> r.rest,
              reads |-> <<Read(size[1], r)>>]

\* USBVisaDriver.raw_recv reading `size` bytes, 1 when the size is falsy
USBVisaDriver_raw_recv_sized(st, size, plan, i) ==
    LET n == IF Falsy(size) THEN 1 ELSE size[1]
        r == read_raw(st, n, Held(plan, i))
    IN  [data |-> r.data, rest |-> r.rest,
         reads |-> <<Read(n, r)>>]

\* USBVisaDriver.raw_recv: the size is replaced by 1 when falsy and then
\* not used; one byte is read
USBVisaDriver_raw_recv(st, size, plan, i) ==
    LET r == read_raw(st, 1, Held(plan, i))
    IN  [data |-> r.data, rest |-> r.rest,
         reads |-> <<Read(1, r)>>]

\* method resolution of self.raw_recv
raw_recv(v, st, size, plan, i) ==
    IF v = "USBVisaDriver"
    THEN USBVisaDriver_raw_recv(st, size, plan, i)
    ELSE MessageVisaDriver_raw_recv(st, size, plan, i)

----------------------------------------------------------------------------
(* read_block *)

\* the header test that rejects only an empty read
bad_header_only_empty(header) == header = <<>>

\* line 153: the header test
bad_header(header) == header # <<"#">>

\* the exception of lines 154-155: str(header[0]) raises IndexError on an
\* empty header, otherwise Exception('Unexpected block header: ...')
header_error(header) ==
    IF header = <<>> THEN "IndexError" ELSE "UnexpectedBlockHeader"

Raised(err, rest, reads) ==
    [data |-> <<>>, error |-> err, rest |-> rest, reads |-> reads,
     declared |-> -1]

\* lines 152-158 on the base driver when no read times out: the outcome of
\* read_block on the pending bytes st
MessageVisaDriver_read_block(st) ==
    LET h == MessageVisaDriver_raw_recv(st, <<1>>, <<>>, 1)
        d == MessageVisaDriver_raw_recv(h.rest, <<1>>, <<>>, 1)
        l == MessageVisaDriver_raw_recv(d.rest, <<int(d.data)>>, <<>>, 1)
        p == MessageVisaDriver_raw_recv(l.rest, <<int(l.data)>>, <<>>, 1)
    IN  IF bad_header(h.data)
        THEN Raised(header_error(h.data), h.rest, h.reads)
        ELSE IF ~IntOk(d.data)
        THEN Raised("ValueError", d.rest, h.reads \o d.reads)
        ELSE IF ~IntOk(l.data)
        THEN Raised("ValueError", l.rest, h.reads \o d.reads \o l.reads)
        ELSE [data |-> p.data, error |-> "", rest |-> p.rest,
              reads |-> h.reads \o d.reads \o l.reads \o p.reads,
              declared |-> int(l.data)]

----------------------------------------------------------------------------
(* The driver object: lifecycle and I/O methods, one action per method *)

\* _init_attributes is empty after MessageVisaDriver.__init__ (line 73); a
\* subclass constructor fills it (line 211)
InitAttributeSets ==
    { <<>>, << <<"TMO_VALUE", 1>>, <<"TERMCHAR", 10>> >> }

Variants == {"GPIBVisaDriver", "TCPVisaDriver", "USBVisaDriver"}

RECURSIVE SeqsUpTo(_, _)
SeqsUpTo(S, n) ==
    IF n = 0 THEN {<<>>}
    ELSE LET shorter == SeqsUpTo(S, n - 1)
         IN  shorter \cup {Append(s, x) : s \in shorter, x \in S}

Streams == SeqsUpTo(Byte, MaxStreamLen)

LifeStreams == SeqsUpTo(Byte, MaxLifeLen)

Sizes == {None} \cup {<<n>> : n \in -1..MaxSize}

SendData == {<<"1">>, <<"#", "1">>}

\* is_open without the test of resource.session
is_open_resource_only == resource # "None"

\* lines 138-141
is_open == IF resource = "None" THEN FALSE ELSE session # 0

\* initialize without its guard
must_open_always == TRUE

\* line 122: initialize opens only a driver that is not open
must_open == ~is_open

\* the size of the first read_raw a raw_recv(size) issues
first_request(v, size) ==
    IF v = "USBVisaDriver" THEN 1
    ELSE IF drain_mode(size) THEN RECV_BUFFER_SIZE ELSE size[1]

SetCalls(n) ==
    [i \in 1..n |-> Call("set_visa_attribute", i, <<>>, TRUE, FALSE, FALSE)]

\* lines 119-130.  fail = -1: nothing fails; 0: open_resource raises;
\* k > 0: the k-th set_visa_attribute raises
Initialize ==
    \E fail \in -1..Len(init_attributes) :
        /\ lastOp' = "initialize"
        /\ recv_size' = None
        /\ result' = <<>>
        /\ declared' = -1
        /\ IF must_open
           THEN IF fail = 0
                THEN /\ error' = "VisaIOError"
                     /\ log' = <<Ctl("open_resource", FALSE)>>
                     /\ UNCHANGED <<resource, session, attrs, nopen>>
                ELSE /\ resource' = "Resource"
                     /\ nopen' = nopen + 1
                     /\ session' = 1
                     /\ attrs' = IF fail = -1 THEN init_attributes
                                 ELSE SubSeq(init_attributes, 1, fail - 1)
                     /\ error' = IF fail = -1 THEN "" ELSE "VisaIOError"
                     /\ log' = <<Ctl("open_resource", FALSE)>>
                               \o SetCalls(IF fail = -1
                                           THEN Len(init_attributes) ELSE fail)
           ELSE /\ fail = -1
                /\ error' = ""
                /\ log' = <<>>
                /\ UNCHANGED <<resource, session, attrs, nopen>>
        /\ UNCHANGED <<driverVars, finalized, stream, loopVars, ctorVars>>

\* finalize that closes only an open driver
Finalize_guarded ==
    /\ lastOp' = "finalize"
    /\ recv_size' = None
    /\ result' = <<>>
    /\ declared' = -1
    /\ error' = ""
    /\ IF is_open
       THEN /\ log' = <<Ctl("close", TRUE)>>
            /\ session' = 0
            /\ finalized' = TRUE
       ELSE /\ log' = <<>>
            /\ UNCHANGED <<session, finalized>>
    /\ nopen' = 0
    /\ UNCHANGED <<driverVars, resource, attrs, stream, loopVars, ctorVars>>

\* lines 132-136
Finalize ==
    /\ lastOp' = "finalize"
    /\ recv_size' = None
    /\ result' = <<>>
    /\ declared' = -1
    /\ IF resource = "None"
       THEN /\ error' = "AttributeError"
            /\ log' = <<>>
            /\ UNCHANGED <<session, finalized>>
       ELSE /\ log' = <<Ctl("close", session # 0)>>
            /\ error' = IF session # 0 THEN "" ELSE "InvalidSession"
            /\ session' = 0
            /\ finalized' = (finalized \/ session # 0)
    /\ nopen' = 0
    /\ UNCHANGED <<driverVars, resource, attrs, stream, loopVars, ctorVars>>

\* lines 83-93: every failure is re-raised as a plain Exception
RawSend ==
    \E bytes \in SendData, iofail \in BOOLEAN :
        /\ lastOp' = "raw_send"
        /\ recv_size' = None
        /\ result' = <<>>
        /\ declared' = -1
        /\ IF resource = "None"
           THEN /\ ~iofail
                /\ error' = "Exception"
                /\ log' = <<>>
           ELSE /\ log' = <<Call("write_raw", Len(bytes), <<>>, session # 0, FALSE,
                                 FALSE)>>
                /\ error' = IF session = 0 \/ iofail THEN "Exception" ELSE ""
        /\ UNCHANGED <<driverVars, resource, session, attrs, nopen, finalized, stream,
                       loopVars, ctorVars>>

\* lines 95-117 (250-267 on a USBVisaDriver)
RawRecv ==
    \E size \in Sizes, held \in 0..MaxHeld :
        /\ held <= Len(stream)
        /\ lastOp' = "raw_recv"
        /\ declared' = -1
        /\ recv_size' = size
        /\ IF resource = "None"
           THEN /\ held = 0
                /\ error' = "AttributeError"
                /\ result' = <<>>
                /\ log' = <<>>
                /\ UNCHANGED stream
           ELSE IF session = 0
           THEN /\ held = 0
                /\ error' = "InvalidSession"
                /\ result' = <<>>
                /\ log' = <<Call("read_raw", first_request(variant, size),
                                 <<>>, FALSE, FALSE, FALSE)>>
                /\ UNCHANGED stream
           ELSE LET r == raw_recv(variant, stream, size, <<held>>, 1)
                IN  /\ error' = ""
                    /\ result' = r.data
                    /\ log' = ReadCalls(r.reads, FALSE)
                    /\ stream' = r.rest
        /\ UNCHANGED <<driverVars, resource, session, attrs, nopen, finalized,
                       loopVars, ctorVars>>

\* read_block whose payload read is issued after the `with` block is left
BlockDone_payload_outside(r) ==
    /\ error' = r.error
    /\ result' = r.data
    /\ declared' = r.declared
    /\ log' = <<Ctl("ignore_warning", TRUE)>>
              \o [i \in 1..Len(r.reads) |->
                     Call("read_raw", r.reads[i].n, r.reads[i].data, TRUE,
                          r.error # "" \/ i <= 3, r.reads[i].timed)]
    /\ stream' = r.rest

\* the effect of a read_block that ended with outcome r
BlockDone(r) ==
    /\ error' = r.error
    /\ result' = r.data
    /\ declared' = r.declared
    /\ log' = <<Ctl("ignore_warning", TRUE)>>
              \o ReadCalls(r.reads, TRUE)
    /\ stream' = r.rest

\* lines 143-158; h1..h4 are the bytes a timeout withholds from the header,
\* digit-count, length and payload reads.  The declared length is kept for
\* the properties.
ReadBlock ==
    /\ lastOp' = "read_block"
    /\ recv_size' = None
    /\ IF resource = "None"
       THEN /\ error' = "AttributeError"
            /\ result' = <<>>
            /\ declared' = -1
            /\ log' = <<>>
            /\ UNCHANGED stream
       ELSE IF session = 0
       THEN /\ error' = "InvalidSession"
            /\ result' = <<>>
            /\ declared' = -1
            /\ log' = <<Ctl("ignore_warning", FALSE)>>
            /\ UNCHANGED stream
       ELSE
       \E h1 \in 0..MaxHeld :
       LET h == raw_recv(variant, stream, <<1>>, <<h1>>, 1)
       IN  IF bad_header(h.data)
           THEN BlockDone(Raised(header_error(h.data), h.rest, h.reads))
           ELSE
           \E h2 \in 0..MaxHeld :
           LET d == raw_recv(variant, h.rest, <<1>>, <<h2>>, 1)
               reads2 == h.reads \o d.reads
           IN  IF ~IntOk(d.data)
               THEN BlockDone(Raised("ValueError", d.rest, reads2))
               ELSE
               \E h3 \in 0..MaxHeld :
               LET nlength == int(d.data)
                   l == raw_recv(variant, d.rest, <<nlength>>, <<h3>>, 1)
                   reads3 == reads2 \o l.reads
               IN  IF ~IntOk(l.data)
                   THEN BlockDone(Raised("ValueError", l.rest, reads3))
                   ELSE
                   \E h4 \in 0..MaxHeld :
                   LET length == int(l.data)
                       p == raw_recv(variant, l.rest, <<length>>, <<h4>>, 1)
                   IN  BlockDone([data |-> p.data, error |-> "",
                                  rest |-> p.rest, reads |-> reads3 \o p.reads,
                                  declared |-> length])
    /\ UNCHANGED <<driverVars, resource, session, attrs, nopen, finalized,
                   loopVars, ctorVars>>

\* lines 160-163
Trigger ==
    /\ lastOp' = "trigger"
    /\ recv_size' = None
    /\ result' = <<>>
    /\ declared' = -1
    /\ IF resource = "None"
       THEN /\ error' = "AttributeError"
            /\ log' = <<>>
       ELSE /\ log' = <<Ctl("viAssertTrigger", session # 0)>>
            /\ error' = IF session # 0 THEN "" ELSE "InvalidSession"
    /\ UNCHANGED <<driverVars, resource, session, attrs, nopen, finalized, stream,
                   loopVars, ctorVars>>

\* a driver object after construction (lines 70-81), not yet initialized
Constructed(attributeSets, streams) ==
    /\ variant \in Variants
    /\ init_attributes \in attributeSets
    /\ resource = "None"
    /\ session = 0
    /\ attrs = <<>>
    /\ nopen = 0
    /\ finalized = FALSE
    /\ stream \in streams
    /\ lastOp = "__init__"
    /\ result = <<>>
    /\ error = ""
    /\ log = <<>>
    /\ declared = -1
    /\ recv_size = None
    /\ pc = "idle"
    /\ buffers = <<>>
    /\ data = <<>>
    /\ endless = FALSE
    /\ resource_name = <<>>
    /\ kwargs = <<>>

Next ==
    \/ Initialize
    \/ Finalize
    \/ RawSend
    \/ RawRecv
    \/ ReadBlock
    \/ Trigger

\* the lifecycle: drivers with and without attributes to apply, little
\* pending output
Init == Constructed(InitAttributeSets, LifeStreams)

Spec == Init /\ [][Next]_vars

\* the I/O methods: the shipped GPIB, TCP and USB drivers (no attributes),
\* all pending outputs up to MaxStreamLen bytes
InitIO == Constructed({<<>>}, Streams)

SpecIO == InitIO /\ [][Next]_vars

----------------------------------------------------------------------------
(* MessageVisaDriver.raw_recv statement by statement: the drain loop *)

MaxFull == 2          \* most full buffers a finite instrument output holds
MaxReads == 4         \* reads after which an endless output is no longer followed

\* lengths below one buffer that end a finite output
ShortLens == {0, 10, 100, RECV_BUFFER_SIZE - 1}

\* pending output of n bytes; successive buffers differ (256 is no multiple of 3)
Pattern(n) == [i \in 1..n |-> Digits[(i % 3) + 1]]

DrainStreams ==
    {Pattern(k * RECV_BUFFER_SIZE + r) : k \in 0..MaxFull, r \in ShortLens}

\* an open base driver on which raw_recv is about to be called
InitDrain ==
    /\ variant \in {"GPIBVisaDriver", "TCPVisaDriver"}
    /\ init_attributes = <<>>
    /\ resource = "Resource"
    /\ session = 1
    /\ attrs = <<>>
    /\ nopen = 1
    /\ finalized = FALSE
    /\ endless \in BOOLEAN
    /\ stream \in (IF endless THEN {<<>>} ELSE DrainStreams)
    /\ lastOp = "initialize"
    /\ result = <<>>
    /\ error = ""
    /\ log = <<>>
    /\ declared = -1
    /\ recv_size = None
    /\ pc = "idle"
    /\ buffers = <<>>
    /\ data = <<>>
    /\ resource_name = <<>>
    /\ kwargs = <<>>

frameVars == <<driverVars, resource, session, attrs, nopen, finalized,
               declared, error, endless, ctorVars>>

\* lines 107-108 and 115-117: entry; a positive size is one read
RecvEnter ==
    /\ pc = "idle"
    /\ \E size \in Sizes, held \in 0..MaxHeld :
        /\ lastOp' = "raw_recv"
        /\ recv_size' = size
        /\ IF drain_mode(size)
           THEN /\ held = 0
                /\ buffers' = <<>>
                /\ pc' = "read"
                /\ UNCHANGED <<stream, log, result, data>>
           ELSE LET r == IF endless
                         THEN [data |-> Pattern(size[1]), rest |-> stream,
                               timed |-> FALSE]
                         ELSE read_raw(stream, size[1], held)
                IN  /\ endless => held = 0
                    /\ data' = r.data
                    /\ result' = r.data
                    /\ stream' = r.rest
                    /\ log' = ReadCalls(<<Read(size[1], r)>>, FALSE)
                    /\ pc' = "done"
                    /\ UNCHANGED buffers
    /\ UNCHANGED frameVars

\* line 110: one read of RECV_BUFFER_SIZE bytes; an endless output fills it
DrainRead ==
    /\ pc = "read"
    /\ endless => Len(log) < MaxReads
    /\ \E held \in 0..MaxHeld :
        LET r == IF endless
                 THEN [data |-> Pattern(RECV_BUFFER_SIZE), rest |-> stream,
                       timed |-> FALSE]
                 ELSE read_raw(stream, RECV_BUFFER_SIZE, held)
        IN  /\ endless => held = 0
            /\ data' = r.data
            /\ stream' = r.rest
            /\ log' = log \o ReadCalls(<<Read(RECV_BUFFER_SIZE, r)>>, FALSE)
    /\ pc' = "test"
    /\ UNCHANGED <<frameVars, lastOp, recv_size, buffers, result>>

\* lines 111-114: keep the buffer, return on a short one
DrainTest ==
    /\ pc = "test"
    /\ buffers' = Append(buffers, data)
    /\ IF short_read(data)
       THEN /\ result' = join(buffers')
            /\ pc' = "done"
       ELSE /\ pc' = "read"
            /\ UNCHANGED result
    /\ UNCHANGED <<frameVars, lastOp, recv_size, stream, log, data>>

NextDrain ==
    \/ RecvEnter
    \/ DrainRead
    \/ DrainTest

\* the code is synchronous: a statement that can run does run, and a
\* read_raw call comes back when the Session completes or times out
SpecDrain ==
    /\ InitDrain
    /\ [][NextDrain]_vars
    /\ WF_vars(DrainRead)
    /\ WF_vars(DrainTest)

----------------------------------------------------------------------------
(* Construction: VisaDriver.__new__ and the variant constructors *)

\* a str is a sequence of one-character strings
startswith(name, prefix) ==
    Len(name) >= Len(prefix) /\ SubSeq(name, 1, Len(prefix)) = prefix

\* lines 23-33: the three tables are the text of a string literal, so the
\* module binds none of the names BYTESIZE, PARITY and STOPBITS
TablesDefined == FALSE

\* lines 12-17: the module imports no name `Constants`
ConstantsDefined == FALSE

BYTESIZE == (5 :> 5) @@ (6 :> 6) @@ (7 :> 7) @@ (8 :> 8)

PARITY == [none |-> "ASRL_PAR_NONE", even |-> "ASRL_PAR_EVEN",
           odd |-> "ASRL_PAR_ODD", mark |-> "ASRL_PAR_MARK",
           space |-> "ASRL_PAR_SPACE"]

\* stop bits are counted in tenths: 10 is 1, 15 is 1.5, 20 is 2
STOPBITS == (10 :> "ASRL_STOP_ONE") @@ (15 :> "ASRL_STOP_ONE5")
            @@ (20 :> "ASRL_STOP_TWO")

\* class attributes of SerialVisaDriver, lines 174-184, and of its base.
\* RECV_TERMINATION is '\n', kept as ord('\n'); 0 stands for the empty string.
DEFAULT_BAUDRATE == 9600
DEFAULT_BYTESIZE == 8
DEFAULT_PARITY == "none"
DEFAULT_STOPBITS == 10
RECV_CHUNK == -1
RECV_TERMINATION == 10

\* TABLE[key] where TABLE is a module-level name
subscript(table, key) ==
    IF ~TablesDefined THEN [error |-> "NameError"]
    ELSE IF key \in DOMAIN table THEN [error |-> "", value |-> table[key]]
    ELSE [error |-> "KeyError"]

\* dict.get(key, default): an argument that was not passed is <<>>
get(d, key, default) ==
    IF key \in DOMAIN d /\ d[key] # <<>> THEN d[key][1] ELSE default

\* lines 195-203: the flow-control mask, as the set of its flags
flow_mask(kws) ==
    (IF get(kws, "rtscts", FALSE) THEN {"ASRL_FLOW_RTS_CTS"} ELSE {})
    \cup (IF get(kws, "dsrdtr", FALSE) THEN {"ASRL_FLOW_DTR_DSR"} ELSE {})
    \cup (IF get(kws, "xonxoff", FALSE) THEN {"ASRL_FLOW_XON_XOFF"} ELSE {})

\* lines 205-209
termination_attributes ==
    IF RECV_TERMINATION # 0 /\ RECV_CHUNK > 1
    THEN << <<"TERMCHAR", RECV_TERMINATION>>, <<"ASRL_END_IN", "ASRL_END_TERMCHAR">> >>
    ELSE << <<"ASRL_END_IN", "ASRL_END_NONE">> >>

\* SerialVisaDriver.__init__, lines 186-211.  kw is the local dict: lines
\* 191-193 look the caller's values up in kw, which holds only ASRL_* keys.
SerialVisaDriver_init(kws) ==
    LET kw1 == [ASRL_BAUD |-> <<get(kws, "baudrate", DEFAULT_BAUDRATE)>>]
        bits == subscript(BYTESIZE, get(kw1, "bytesize", DEFAULT_BYTESIZE))
        par == subscript(PARITY, get(kw1, "parity", DEFAULT_PARITY))
        stop == subscript(STOPBITS, get(kw1, "stopbits", DEFAULT_STOPBITS))
    IN  IF bits.error # "" THEN [error |-> bits.error, attributes |-> <<>>]
        ELSE IF par.error # "" THEN [error |-> par.error, attributes |-> <<>>]
        ELSE IF stop.error # "" THEN [error |-> stop.error, attributes |-> <<>>]
        ELSE IF ~ConstantsDefined THEN [error |-> "NameError", attributes |-> <<>>]
        ELSE [error |-> "",
              attributes |->
                  << <<"ASRL_BAUD", kw1.ASRL_BAUD[1]>>,
                     <<"ASRL_DATA_BITS", bits.value>>,
                     <<"ASRL_PARITY", par.value>>,
                     <<"ASRL_STOP_BITS", stop.value>>,
                     <<"ASRL_FLOW_CNTRL", flow_mask(kws)>> >>
                  \o termination_attributes]

\* the outcome of calling a driver class
Built(class, r) ==
    IF r.error = "" THEN [class |-> class, error |-> "", attributes |-> r.attributes]
    ELSE [class |-> "None", error |-> r.error, attributes |-> <<>>]

\* MessageVisaDriver.__init__, lines 70-81
MessageVisaDriver_init == [error |-> "", attributes |-> <<>>]

\* VisaDriver.__new__, lines 37-50
VisaDriver_new(name, kws) ==
    IF startswith(name, <<"G", "P", "I", "B">>)
    THEN Built("GPIBVisaDriver", MessageVisaDriver_init)
    ELSE IF startswith(name, <<"A", "S", "R", "L">>)
    THEN Built("SerialVisaDriver", SerialVisaDriver_init(kws))
    ELSE IF startswith(name, <<"T", "C", "P", "I", "P">>)
    THEN Built("TCPVisaDriver", MessageVisaDriver_init)
    ELSE IF startswith(name, <<"U", "S", "B">>)
    THEN Built("USBVisaDriver", MessageVisaDriver_init)
    ELSE [class |-> "None", error |-> "ValueError", attributes |-> <<>>]

\* canonical resource names, as resource_info reports them
Names ==
    { <<"G", "P", "I", "B", "0", ":", ":", "1">>,
      <<"G", "P", "I", "B">>,
      <<"A", "S", "R", "L", "1">>,
      <<"A", "S", "R", "L", "G", "P", "I", "B">>,
      <<"T", "C", "P", "I", "P", "0">>,
      <<"U", "S", "B", "0">>,
      <<"U", "S", "B", "T", "C", "P", "I", "P">>,
      <<"P", "X", "I", "0">>,
      <<"G", "P", "I">>,
      <<"T", "C", "P", "0">>,
      <<"X", "U", "S", "B", "0">>,
      <<"g", "p", "i", "b", "0">>,
      <<"U", "S">>,
      <<>> }

Opt(S) == {<<>>} \cup {<<v>> : v \in S}

KwargsSets ==
    [baudrate : Opt({19200}),
     bytesize : Opt({5, 7, 8, 9}),
     parity : Opt({"none", "even", "space", "foo"}),
     stopbits : Opt({10, 15, 20, 30}),
     rtscts : Opt({TRUE}),
     dsrdtr : {<<>>},
     xonxoff : Opt({TRUE, FALSE})]

\* nothing constructed yet; the caller has chosen its arguments
InitCreate ==
    /\ variant = "None"
    /\ init_attributes = <<>>
    /\ resource = "None"
    /\ session = 0
    /\ attrs = <<>>
    /\ nopen = 0
    /\ finalized = FALSE
    /\ stream = <<>>
    /\ lastOp = "idle"
    /\ result = <<>>
    /\ error = ""
    /\ log = <<>>
    /\ declared = -1
    /\ recv_size = None
    /\ pc = "idle"
    /\ buffers = <<>>
    /\ data = <<>>
    /\ endless = FALSE
    /\ resource_name \in Names
    /\ kwargs \in KwargsSets

Construct(op, built) ==
    /\ lastOp = "idle"
    /\ lastOp' = op
    /\ variant' = built.class
    /\ error' = built.error
    /\ init_attributes' = built.attributes
    /\ UNCHANGED <<resource, session, attrs, nopen, finalized, stream, result,
                   log, declared, recv_size, loopVars, ctorVars>>

\* VisaDriver(resource_name, **kwargs)
Create == Construct("VisaDriver", VisaDriver_new(resource_name, kwargs))

\* SerialVisaDriver(resource_name, **kwargs), called directly
CreateSerial ==
    /\ startswith(resource_name, <<"A", "S", "R", "L">>)
    /\ Construct("SerialVisaDriver",
                 Built("SerialVisaDriver", SerialVisaDriver_init(kwargs)))

NextCreate ==
    \/ Create
    \/ CreateSerial

SpecCreate == InitCreate /\ [][NextCreate]_vars

----------------------------------------------------------------------------
(* SerialVisaDriver.raw_recv, lines 214-236 *)

\* lines 70-81 and 186-211: no constructor binds the attributes `visa` and
\* `vi` that lines 227 and 234 read; the Resource is self.resource
VisaDefined == FALSE

\* ASRL_AVAIL_NUM: the bytes the serial port holds
ASRL_AVAIL_NUM(st) == Len(st)

\* lines 226-236.  Evaluating self.visa raises AttributeError before any call
\* is made; the other branches are what the statements would do on a bound
\* self.visa.
SerialVisaDriver_raw_recv(st, size, held) ==
    LET avail == size # None /\ size[1] = -1
        size1 == IF avail THEN <<ASRL_AVAIL_NUM(st)>> ELSE size
        size2 == IF Falsy(size1) THEN <<1>> ELSE size1
        r == read_raw(st, size2[1], held)
    IN  IF ~VisaDefined
        THEN [data |-> <<>>, rest |-> st, reads |-> <<>>,
              error |-> "AttributeError"]
        ELSE IF avail /\ Falsy(size1)
        THEN [data |-> <<>>, rest |-> st, reads |-> <<>>, error |-> ""]
        ELSE [data |-> r.data, rest |-> r.rest,
              reads |-> <<Read(size2[1], r)>>, error |-> ""]

\* raw_recv on a SerialVisaDriver: self.resource is not used
SerialRawRecv ==
    \E size \in Sizes, held \in 0..MaxHeld :
        /\ held <= Len(stream)
        /\ VisaDefined \/ held = 0
        /\ LET r == SerialVisaDriver_raw_recv(stream, size, held)
           IN  /\ lastOp' = "raw_recv"
               /\ declared' = -1
               /\ recv_size' = size
               /\ error' = r.error
               /\ result' = r.data
               /\ log' = ReadCalls(r.reads, FALSE)
               /\ stream' = r.rest
        /\ UNCHANGED <<driverVars, resource, session, attrs, nopen, finalized,
                       loopVars, ctorVars>>

\* a SerialVisaDriver object whose construction did not run lines 189-211
\* (a subclass with its own constructor: SerialVisaDriver_init never returns)
InitSerial ==
    /\ variant = "SerialVisaDriver"
    /\ init_attributes \in InitAttributeSets
    /\ resource = "None"
    /\ session = 0
    /\ attrs = <<>>
    /\ nopen = 0
    /\ finalized = FALSE
    /\ stream \in Streams
    /\ lastOp = "__init__"
    /\ result = <<>>
    /\ error = ""
    /\ log = <<>>
    /\ declared = -1
    /\ recv_size = None
    /\ pc = "idle"
    /\ buffers = <<>>
    /\ data = <<>>
    /\ endless = FALSE
    /\ resource_name = <<>>
    /\ kwargs = <<>>

\* the methods SerialVisaDriver inherits unchanged, and its raw_recv
NextSerial ==
    \/ Initialize
    \/ Finalize
    \/ RawSend
    \/ SerialRawRecv
    \/ Trigger

SpecSerial == InitSerial /\ [][NextSerial]_vars

----------------------------------------------------------------------------
(* What the properties speak about *)

\* the read_raw calls of the last method call
ReadsOf(l) == SelectSeq(l, LAMBDA c : c.op = "read_raw")

\* the bytes the Session delivered to the last method call, in call order
RECURSIVE Delivered(_)
Delivered(l) ==
    IF l = <<>> THEN <<>> ELSE Delivered(SubSeq(l, 1, Len(l) - 1)) \o l[Len(l)].data

Consumed == Delivered(log)

\* the pending bytes as they were when the last method call started
PreStream == Consumed \o stream

\* the last method call ran on a live session
RanLive == log # <<>> /\ \A i \in 1..Len(log) : log[i].live

\* the Session delivered in full whatever was requested and pending
NoTimeouts == \A i \in 1..Len(log) : ~log[i].timed

\* '#' D <length, D digits> <payload, length bytes>, D in 1..9
FrameD(s) == DigitVal(s[2])

FrameLength(s) == int(SubSeq(s, 3, 2 + FrameD(s)))

FramePayload(s) == SubSeq(s, 3 + FrameD(s), 2 + FrameD(s) + FrameLength(s))

WellFormed(s) ==
    /\ Len(s) >= 2
    /\ s[1] = "#"
    /\ IsDigit(s[2])
    /\ FrameD(s) >= 1
    /\ Len(s) >= 2 + FrameD(s)
    /\ IntOk(SubSeq(s, 3, 2 + FrameD(s)))
    /\ Len(s) >= 2 + FrameD(s) + FrameLength(s)

IsBase == variant # "USBVisaDriver"

----------------------------------------------------------------------------
(* Claims *)

\* C1: no read_raw or write_raw is issued on the Resource while its session
\* is closed (never opened, or closed by finalize).
NoRawIOWhileClosed ==
    \A i \in 1..Len(log) :
        log[i].op \in {"read_raw", "write_raw"} => log[i].live

\* C2: a read_block (of the base driver) that returns normally never
\* returns a payload shorter than the length declared in the frame header.
BlockNeverShort ==
    (lastOp = "read_block" /\ IsBase /\ error = "") => Len(result) >= declared

\* C3: on the base driver, a well-formed frame delivered without timeouts is
\* answered by exactly its payload bytes, in order.
BlockReturnsPayload ==
    (/\ lastOp = "read_block"
     /\ IsBase
     /\ RanLive
     /\ NoTimeouts
     /\ WellFormed(PreStream))
    => (error = "" /\ result = FramePayload(PreStream))

\* the header read of the last read_block delivered a byte other than '#'
FirstByteNotHash ==
    /\ lastOp = "read_block"
    /\ RanLive
    /\ PreStream # <<>>
    /\ PreStream[1] # "#"
    /\ ~log[2].timed

\* C4: when the header read delivers a first byte other than '#', read_block
\* fails with UnexpectedBlockHeader after exactly one read, of size 1, having
\* consumed exactly that byte.
BadHeaderConsumesOne ==
    FirstByteNotHash =>
        /\ error = "UnexpectedBlockHeader"
        /\ Len(ReadsOf(log)) = 1
        /\ ReadsOf(log)[1].n = 1
        /\ Consumed = <<PreStream[1]>>
        /\ stream = Tail(PreStream)

BadHeaderWitness ==
    /\ FirstByteNotHash
    /\ error = "UnexpectedBlockHeader"
    /\ Len(stream) >= 2

\* a raw_recv in drain mode (size None, 0 or -1) is running or has returned
Draining == lastOp = "raw_recv" /\ drain_mode(recv_size)

\* C5: the drain loop requests RECV_BUFFER_SIZE bytes in every read, goes on
\* after every full buffer, stops at the first short one, and returns the
\* buffers it read joined in read order: k full buffers and one short one
\* are k + 1 reads.  Without timeouts that is what the loop run in one step
\* gives on the same pending bytes.
DrainShape ==
    Draining =>
        /\ \A i \in 1..Len(log) : log[i].op = "read_raw" /\ log[i].n = RECV_BUFFER_SIZE
        /\ \A i \in 1..(Len(log) - 1) : Len(log[i].data) = RECV_BUFFER_SIZE
        /\ pc = "read" => \A i \in 1..Len(log) : Len(log[i].data) = RECV_BUFFER_SIZE
        /\ pc = "done" =>
              /\ log # <<>>
              /\ Len(log[Len(log)].data) < RECV_BUFFER_SIZE
              /\ result = Consumed
              /\ ~endless => result \o stream = Pattern(Len(result) + Len(stream))
              /\ (~endless /\ NoTimeouts) =>
                    LET r == MessageVisaDriver_raw_recv(PreStream, recv_size, <<>>, 1)
                    IN  r.data = result /\ r.rest = stream /\ Len(r.reads) = Len(log)

DrainWitness ==
    /\ Draining
    /\ pc = "done"
    /\ Len(log) = 3
    /\ Len(log[3].data) = 100
    /\ Len(result) = 612

\* the drain loop returns only from a read that was short
DrainReturnsOnlyShort ==
    (Draining /\ pc # "done" /\ pc' = "done") => Len(data) < RECV_BUFFER_SIZE

\* C6: the drain loop returns once a read is short, a finite output makes a
\* read short, the loop returns only on a short read, and it never returns
\* while every read fills the buffer.
DrainTermination ==
    /\ (Draining /\ pc = "test" /\ Len(data) < RECV_BUFFER_SIZE) ~> (pc = "done")
    /\ (Draining /\ ~endless) ~> (pc = "done")
    /\ [][DrainReturnsOnlyShort]_vars
    /\ []((Draining /\ endless) => pc # "done")

EndlessWitness ==
    /\ Draining
    /\ endless
    /\ pc = "read"
    /\ Len(buffers) = 3

\* is_open() after construction and after a successful initialize / finalize
LifecycleState ==
    /\ lastOp = "__init__" => ~is_open
    /\ (lastOp = "initialize" /\ error = "") => is_open
    /\ (lastOp = "finalize" /\ error = "") => ~is_open

\* only initialize and finalize change is_open(); an initialize() that
\* succeeds on a driver that is not open opens a Resource
LifecycleStep ==
    /\ lastOp' \notin {"initialize", "finalize"} => (is_open' = is_open)
    /\ (~is_open /\ lastOp' = "initialize" /\ error' = "")
           => (log' # <<>> /\ log'[1].op = "open_resource")

\* C7: is_open() is false on a new driver, true after an initialize() that
\* succeeded, false after a finalize() that succeeded, also when the
\* initialize() follows a finalize(); no other method changes it.
Lifecycle == []LifecycleState /\ [][LifecycleStep]_vars

ReopenedWitness ==
    /\ lastOp = "initialize"
    /\ error = ""
    /\ finalized
    /\ is_open

\* an initialize() on an open driver is a no-op
IdempotentStep ==
    (is_open /\ lastOp' = "initialize")
        => /\ UNCHANGED <<resource, session, attrs, nopen>>
           /\ log' = <<>>
           /\ error' = ""

\* C8: an initialize() on an open driver opens no session and sets no
\* attribute: it leaves the Resource, its session and its attributes as they
\* were, and a run of initialize() calls performs at most one open.
InitializeIdempotent ==
    [](nopen <= 1 /\ (is_open => nopen = 1)) /\ [][IdempotentStep]_vars

SecondInitializeWitness ==
    /\ lastOp = "initialize"
    /\ log = <<>>
    /\ is_open
    /\ attrs # <<>>
    /\ nopen = 1

\* the class the prefix of a canonical name stands for, GPIB tested first
MatchingClass(name) ==
    IF startswith(name, <<"G", "P", "I", "B">>) THEN "GPIBVisaDriver"
    ELSE IF startswith(name, <<"A", "S", "R", "L">>) THEN "SerialVisaDriver"
    ELSE IF startswith(name, <<"T", "C", "P", "I", "P">>) THEN "TCPVisaDriver"
    ELSE IF startswith(name, <<"U", "S", "B">>) THEN "USBVisaDriver"
    ELSE "None"

\* C9: a canonical name that starts with GPIB, ASRL, TCPIP or USB gives a
\* driver of the matching class; any other name fails with ValueError
\* (UnknownResourceKind) and gives no driver.
DispatchMatches ==
    lastOp = "VisaDriver" =>
        IF MatchingClass(resource_name) # "None"
        THEN error = "" /\ variant = MatchingClass(resource_name)
        ELSE error = "ValueError" /\ variant = "None"

\* the caller's value for a key, or the default
Supplied(key, default) ==
    IF kwargs[key] = <<>> THEN default ELSE kwargs[key][1]

ValidSerialConfig ==
    /\ Supplied("bytesize", 8) \in {5, 6, 7, 8}
    /\ Supplied("parity", "none") \in {"none", "even", "odd", "mark", "space"}
    /\ Supplied("stopbits", 10) \in {10, 15, 20}

AttributeOf(key) ==
    LET i == CHOOSE j \in 1..Len(init_attributes) : init_attributes[j][1] = key
    IN  init_attributes[i][2]

HasAttribute(key) ==
    \E i \in 1..Len(init_attributes) : init_attributes[i][1] = key

SerialBuilt ==
    \/ lastOp = "SerialVisaDriver"
    \/ lastOp = "VisaDriver" /\ MatchingClass(resource_name) = "SerialVisaDriver"

\* C10: a SerialVisaDriver built with a bytesize, parity or stopbits outside
\* the tables fails with KeyError (InvalidConfig); built with valid values,
\* its attributes encode the caller's value for each key passed and the
\* default (9600, 8, none, 1) for each key not passed.
SerialConfigMerged ==
    SerialBuilt =>
        IF ValidSerialConfig
        THEN /\ error = ""
             /\ variant = "SerialVisaDriver"
             /\ HasAttribute("ASRL_BAUD")
             /\ AttributeOf("ASRL_BAUD") = Supplied("baudrate", 9600)
             /\ HasAttribute("ASRL_DATA_BITS")
             /\ AttributeOf("ASRL_DATA_BITS") = Supplied("bytesize", 8)
             /\ HasAttribute("ASRL_PARITY")
             /\ AttributeOf("ASRL_PARITY") = PARITY[Supplied("parity", "none")]
             /\ HasAttribute("ASRL_STOP_BITS")
             /\ AttributeOf("ASRL_STOP_BITS") = STOPBITS[Supplied("stopbits", 10)]
        ELSE error = "KeyError" /\ variant = "None"

\* a raw_recv with a positive size ran on an open base driver
PositiveRecv ==
    /\ lastOp = "raw_recv"
    /\ IsBase
    /\ RanLive
    /\ recv_size # None
    /\ recv_size[1] > 0

\* C11: raw_recv(size) with a positive size on the base driver issues exactly
\* one read_raw, asking for size bytes, and returns what it delivered, also
\* when that is short or empty after a timeout: no error, no second read.
SingleReadOfSize ==
    PositiveRecv =>
        /\ Len(log) = 1
        /\ log[1].op = "read_raw"
        /\ log[1].n = recv_size[1]
        /\ result = log[1].data
        /\ Len(result) <= recv_size[1]
        /\ error = ""

EmptyReadWitness ==
    /\ PositiveRecv
    /\ recv_size[1] = 2
    /\ log[1].timed
    /\ result = <<>>
    /\ stream # <<>>

\* a raw_recv ran on an open USBVisaDriver
USBRecv ==
    /\ lastOp = "raw_recv"
    /\ variant = "USBVisaDriver"
    /\ RanLive

SetsOf(l) == SelectSeq(l, LAMBDA c : c.op = "set_visa_attribute")

\* C13: an initialize() that opens a Resource sets every entry of
\* _init_attributes on it exactly once, and no read or write is issued, nor
\* is a later initialize() a no-op, on an open Resource that lacks an entry,
\* also after an initialize() in which setting one entry failed.
ConfiguredBeforeIO ==
    /\ (lastOp = "initialize" /\ log # <<>> /\ error = "")
           => (attrs = init_attributes /\ Len(SetsOf(log)) = Len(init_attributes))
    /\ (lastOp \in {"raw_send", "raw_recv", "read_block"} /\ RanLive)
           => attrs = init_attributes
    /\ (lastOp = "initialize" /\ log = <<>> /\ is_open)
           => attrs = init_attributes

\* C14: for every well-formed frame (D in 1..9, declared length >= 0, length
\* 0 included) delivered without timeouts, read_block on the base driver
\* issues exactly four reads, asking for 1, 1, D and length bytes in that
\* order, consumes exactly 2 + D + length bytes and leaves the bytes after
\* the frame pending.
BlockExactCounts ==
    (/\ lastOp = "read_block"
     /\ IsBase
     /\ RanLive
     /\ NoTimeouts
     /\ WellFormed(PreStream))
    => LET reads == ReadsOf(log)
           D == FrameD(PreStream)
           length == FrameLength(PreStream)
       IN  /\ Len(reads) = 4
           /\ <<reads[1].n, reads[2].n, reads[3].n, reads[4].n>>
                  = <<1, 1, D, length>>
           /\ Len(Consumed) = 2 + D + length
           /\ stream = Drop(PreStream, 2 + D + length)

\* C15: when the header read of read_block delivers nothing (a timeout), the
\* call fails with UnexpectedBlockHeader, as for a wrong header byte, and
\* issues no further read.
EmptyHeaderIsProtocolError ==
    (/\ lastOp = "read_block"
     /\ RanLive
     /\ ReadsOf(log) # <<>>
     /\ ReadsOf(log)[1].data = <<>>)
    => (error = "UnexpectedBlockHeader" /\ Len(ReadsOf(log)) = 1)

\* C16: with a receive termination character and a drain buffer size above
\* 1 (the defaults '\n' and 256), lines 205-209 of the SerialVisaDriver
\* constructor select TERMCHAR and ASRL_END_IN = ASRL_END_TERMCHAR, and a
\* driver that was built carries them at the end of its attributes.
SerialTerminationSet ==
    (SerialBuilt /\ RECV_TERMINATION # 0 /\ RECV_BUFFER_SIZE > 1)
    => /\ termination_attributes
              = << <<"TERMCHAR", RECV_TERMINATION>>,
                   <<"ASRL_END_IN", "ASRL_END_TERMCHAR">> >>
       /\ error = ""
       /\ HasAttribute("TERMCHAR")
       /\ HasAttribute("ASRL_END_IN")
       /\ AttributeOf("ASRL_END_IN") = "ASRL_END_TERMCHAR"

\* C17: raw_recv on a SerialVisaDriver: with size -1 it asks for the number n
\* of bytes available and returns empty without a read when n = 0, else
\* issues one read of n bytes; with size 0 or None one read of 1 byte; with
\* a positive size one read of that size.
SerialRecvByAvailable ==
    (lastOp = "raw_recv" /\ variant = "SerialVisaDriver" /\ is_open)
    => /\ error = ""
       /\ IF recv_size = <<-1>> /\ PreStream = <<>>
          THEN log = <<>> /\ result = <<>>
          ELSE /\ Len(log) = 1
               /\ log[1].op = "read_raw"
               /\ log[1].n = (IF recv_size = <<-1>> THEN Len(PreStream)
                              ELSE IF Falsy(recv_size) THEN 1
                              ELSE recv_size[1])

\* C18: in a read_block that returns, VI_SUCCESS_MAX_CNT is ignored while the
\* header, digit-count and length reads are issued and not ignored while the
\* payload read, the last one, is issued.
PayloadReadNotSuppressed ==
    (lastOp = "read_block" /\ RanLive /\ error = "")
    => LET reads == ReadsOf(log)
       IN  \A i \in 1..Len(reads) : reads[i].ign <=> i < Len(reads)

\* C18, amended: read_block enters ignore_warning(VI_SUCCESS_MAX_CNT) before
\* its first read and issues every read inside it, the payload read
\* included; a raw_recv called on its own ignores no warning.
AllBlockReadsSuppressed ==
    /\ (lastOp = "read_block" /\ RanLive)
           => /\ log[1].op = "ignore_warning"
              /\ \A i \in 2..Len(log) : log[i].op = "read_raw" /\ log[i].ign
    /\ lastOp = "raw_recv" => \A i \in 1..Len(log) : ~log[i].ign

PayloadSuppressedWitness ==
    /\ lastOp = "read_block"
    /\ RanLive
    /\ error = ""
    /\ declared = 1
    /\ Len(result) = 1
    /\ Len(log) = 5
    /\ log[5].ign

\* C19: every finalize() forwards exactly one close to the Resource,
\* whatever the state of the driver; a failure of it (never initialized, or
\* closed already) reaches the caller and the driver stays closed.
FinalizeAlwaysCloses ==
    lastOp = "finalize" =>
        /\ Len(log) = 1
        /\ log[1].op = "close"
        /\ ~is_open

\* C19, amended: finalize() is unguarded.  On a driver that holds a Resource
\* it forwards exactly one close, also when the session is closed already,
\* and the failure of that close reaches the caller as it is; on a driver
\* that was never initialized there is no Resource, nothing is forwarded and
\* the call fails with AttributeError.  The driver is closed afterwards in
\* every case.
FinalizeUnguarded ==
    lastOp = "finalize" =>
        /\ ~is_open
        /\ IF resource = "None"
           THEN log = <<>> /\ error = "AttributeError"
           ELSE /\ Len(log) = 1
                /\ log[1].op = "close"
                /\ error = (IF log[1].live THEN "" ELSE "InvalidSession")

SecondFinalizeWitness ==
    /\ lastOp = "finalize"
    /\ finalized
    /\ log = <<Ctl("close", FALSE)>>
    /\ error = "InvalidSession"

\* C20: read_block on a USBVisaDriver does what it does on the base driver:
\* for a well-formed frame delivered in full it reads the D length digits
\* and the length payload bytes, returns the payload the base driver
\* returns and consumes the bytes the base driver consumes.
USBBlockEqualsBase ==
    (/\ lastOp = "read_block"
     /\ variant = "USBVisaDriver"
     /\ RanLive
     /\ NoTimeouts
     /\ WellFormed(PreStream))
    => LET base == MessageVisaDriver_read_block(PreStream)
       IN  /\ error = base.error
           /\ result = base.data
           /\ stream = base.rest

====
